---- MODULE Spec2Model ----
(***************************************************************************)
(* A model of the hybrid audience discovery core of agentic-cdp-demo       *)
(* (src/orchestration.py): the constraint-value coercion of the Metadata   *)
(* Filter Translator, the two-phase hybrid_audience_search tool, and the   *)
(* process-wide token counter that run_query_async resets.                 *)
(*                                                                         *)
(* Python strings are sequences of one-character strings.  The character   *)
(* written "SUP2" stands for U+00B2 (SUPERSCRIPT TWO), a character for     *)
(* which str.isdigit() is true and int() raises ValueError.                *)
(***************************************************************************)
EXTENDS Integers, Sequences, FiniteSets

\* ------------------------------------------------------------------------
\* Bounds of the model
\* ------------------------------------------------------------------------
\* Longest raw constraint string drawn in SpecCoerce.
MaxLen == 3
\* Customers are 1..NCust.
NCust == 2
\* Most language-model / embedding calls one request makes in the model.
MaxCalls == 2
\* Most tokens one call reports.
MaxTok == 1

\* ------------------------------------------------------------------------
\* Python values
\* ------------------------------------------------------------------------
None == [t |-> "None"]
StrVal(s) == [t |-> "str", v |-> s]
IntVal(n) == [t |-> "int", v |-> n]
\* A float is neg * mant * 10^(-scale), kept normalised (see Normalise).
FloatVal(neg, mant, scale) == [t |-> "float", neg |-> neg, mant |-> mant, scale |-> scale]
\* An exception leaving the expression that raised it.
Raised(kind) == [t |-> "raised", kind |-> kind]

AsciiDigits == {"0", "7"}
\* Characters with the Unicode Digit property: the decimal digits and
\* characters such as U+00B2.
DigitChars == AsciiDigits \cup {"SUP2"}
Alphabet == DigitChars \cup {"-", ".", "P"}

DigitVal(c) == IF c = "7" THEN 7 ELSE 0

RECURSIVE DecVal(_)
\* The number a sequence of decimal digits writes (the empty sequence: 0).
DecVal(s) ==
    IF Len(s) = 0 THEN 0
    ELSE 10 * DecVal(SubSeq(s, 1, Len(s) - 1)) + DigitVal(s[Len(s)])

AllIn(s, cs) == \A i \in 1..Len(s) : s[i] \in cs

\* str.isdigit(): at least one character, and every character a digit.
IsDigit(s) == Len(s) > 0 /\ AllIn(s, DigitChars)

StripSign(s) == IF Len(s) > 0 /\ s[1] = "-" THEN Tail(s) ELSE s
IsNeg(s) == Len(s) > 0 /\ s[1] = "-"

\* What int() accepts over Alphabet: an optional sign, then decimal digits.
PyIntParses(s) == Len(StripSign(s)) > 0 /\ AllIn(StripSign(s), AsciiDigits)

\* int(s)
PyInt(s) ==
    IF PyIntParses(s)
    THEN IntVal((IF IsNeg(s) THEN -1 ELSE 1) * DecVal(StripSign(s)))
    ELSE Raised("ValueError")

\* The positions of "." in s.
Dots(s) == {i \in 1..Len(s) : s[i] = "."}

\* What float() accepts over Alphabet: an optional sign, then digits with at
\* most one point and at least one digit.
PyFloatParses(s) ==
    LET b == StripSign(s)
    IN  /\ AllIn(b, AsciiDigits \cup {"."})
        /\ Cardinality(Dots(b)) <= 1
        /\ Len(b) - Cardinality(Dots(b)) >= 1

RECURSIVE Normalise(_, _, _)
\* Trailing zeros of the fraction dropped: 7.0 and 7.00 are one float.
Normalise(neg, mant, scale) ==
    IF scale > 0 /\ mant % 10 = 0
    THEN Normalise(neg, mant \div 10, scale - 1)
    ELSE FloatVal(neg, mant, scale)

\* float(s)
PyFloat(s) ==
    IF PyFloatParses(s)
    THEN LET b == StripSign(s)
             d == IF Dots(b) = {} THEN Len(b) + 1 ELSE CHOOSE i \in Dots(b) : TRUE
             whole == SubSeq(b, 1, d - 1)
             frac == SubSeq(b, d + 1, Len(b))
         IN  Normalise(IsNeg(s), DecVal(whole \o frac), Len(frac))
    ELSE Raised("ValueError")

\* The coercion with the isinstance(value, str) guard left out: isdigit is
\* looked up on every value.
CoerceNoTypeGuard(value) ==
    IF value.t # "str" THEN Raised("AttributeError")
    ELSE IF IsDigit(value.v) THEN PyInt(value.v)
    ELSE IF PyFloatParses(value.v) THEN PyFloat(value.v)
    ELSE value

\* processed_value of one structured constraint (orchestration.py 141-147).
Coerce(value) ==
    IF value.t = "str"
    THEN IF IsDigit(value.v) THEN PyInt(value.v)
         ELSE IF PyFloatParses(value.v) THEN PyFloat(value.v)
         ELSE value
    ELSE value

\* ------------------------------------------------------------------------
\* The relational store and the semantic index
\* ------------------------------------------------------------------------
Customers == 1..NCust
Products == {"socks"}
\* The rows the events table may hold (the columns a predicate reads).
EventRows == [customer_id : Customers, product : Products]

\* The behavioral predicates the agent may extract: product = '<p>' for a
\* product that is sold, for one that is not, and a fragment that is not SQL.
Predicates ==
    {[t |-> "str", v |-> "product=", product |-> p] : p \in Products \cup {"hat"}}
        \cup {[t |-> "str", v |-> "malformed", product |-> "none"]}
EmptyStr == [t |-> "str", v |-> "", product |-> "none"]

List(s) == [t |-> "list", v |-> s]
Dict(f) == [t |-> "dict", v |-> f]

\* Python truthiness of None, a string, a list and a dict.
Truthy(x) ==
    CASE x.t = "None" -> FALSE
      [] x.t = "str" -> x.v # ""
      [] x.t = "list" -> x.v # {}
      [] x.t = "dict" -> DOMAIN x.v # {}
      [] OTHER -> TRUE

\* SELECT DISTINCT customer_id FROM events WHERE <where_clause>: the distinct
\* identifiers (their order is the engine's and nothing reads it), or the
\* error pandas raises when the engine rejects the query or is unreachable.
sql_candidate_ids(where_clause, evts, dbUp) ==
    IF ~dbUp \/ where_clause.v # "product="
    THEN Raised("QueryError")
    ELSE List({e.customer_id : e \in {x \in evts : x.product = where_clause.product}})

Country(c) == IF c % 2 = 1 THEN <<"P", "L">> ELSE <<"D", "E">>
Age(c) == IF c = 1 THEN 7 ELSE 70

\* The payload metadata of the point ingest_to_qdrant uploads for customer c.
PointMetadata(c) ==
    [customer_id |-> IntVal(c), country |-> StrVal(Country(c)), age |-> IntVal(Age(c))]

\* The payload value a filter key names (None: the payload has no such key).
PayloadValue(c, key) ==
    CASE key = "metadata.customer_id" -> PointMetadata(c).customer_id
      [] key = "metadata.country" -> PointMetadata(c).country
      [] key = "metadata.age" -> PointMetadata(c).age
      [] OTHER -> None

MetadataFilter(key, value, operator) == [key |-> key, value |-> value, operator |-> operator]

FilterMatches(c, f) ==
    IF f.operator = "IN"
    THEN PayloadValue(c, f.key).t = "int" /\ PayloadValue(c, f.key).v \in f.value
    ELSE PayloadValue(c, f.key) = f.value

\* The points a filter object admits: every predicate must hold (the
\* condition of MetadataFilters is AND); no filter object admits every point.
Admitted(filters_obj) ==
    IF filters_obj.t = "None" THEN Customers
    ELSE {c \in Customers :
            \A i \in 1..Len(filters_obj.filters) : FilterMatches(c, filters_obj.filters[i])}

\* similarity_top_k of the query engine.
TopK == 10

\* ------------------------------------------------------------------------
\* hybrid_audience_search, up to its await
\* ------------------------------------------------------------------------
NoMatchMsg == "No customers match the specified behavioral SQL conditions."
NarrowingErrorPrefix == "SQL Error in narrowing: "
\* A returned string: a fixed prefix and what follows it.
Text(prefix, tail) == [t |-> "text", prefix |-> prefix, tail |-> tail]

\* The outcome of step 1: the tool returns ret, raises, or goes on with
\* candidate_ids.
GateReturn(ret) == [kind |-> "return", ret |-> ret, candidate_ids |-> None]
GateRaise(e) == [kind |-> "raise", ret |-> e, candidate_ids |-> None]
GateGoOn(ids) == [kind |-> "goon", ret |-> None, candidate_ids |-> ids]

\* Step 1 without the "if not candidate_ids" return.
BehavioralGateNoEmptyCheck(sql_where, evts, dbUp) ==
    IF Truthy(sql_where)
    THEN LET r == sql_candidate_ids(sql_where, evts, dbUp)
         IN  IF r.t = "raised"
             THEN GateReturn(Text(NarrowingErrorPrefix, r.kind))
             ELSE GateGoOn(r)
    ELSE GateGoOn(None)

\* Step 1 without the try/except around the narrowing call.
BehavioralGateNoCatch(sql_where, evts, dbUp) ==
    IF Truthy(sql_where)
    THEN LET r == sql_candidate_ids(sql_where, evts, dbUp)
         IN  IF r.t = "raised" THEN GateRaise(r)
             ELSE IF ~Truthy(r) THEN GateReturn(Text(NoMatchMsg, ""))
             ELSE GateGoOn(r)
    ELSE GateGoOn(None)

\* Step 1, the SQL narrowing (orchestration.py 118-127).
BehavioralGate(sql_where, evts, dbUp) ==
    IF Truthy(sql_where)
    THEN LET r == sql_candidate_ids(sql_where, evts, dbUp)
         IN  IF r.t = "raised"
             THEN GateReturn(Text(NarrowingErrorPrefix, r.kind))
             ELSE IF ~Truthy(r) THEN GateReturn(Text(NoMatchMsg, ""))
             ELSE GateGoOn(r)
    ELSE GateGoOn(None)

\* The order in which the constraints of filters_dict are visited.
KeyOrder == <<"customer_id", "country", "age">>

\* A Python list of predicates.
FilterList(s) == [t |-> "filters", v |-> s]

RECURSIVE EqFilters(_, _)
\* The EQ-predicates of the constraints KeyOrder[i..] in filters_dict (as a
\* list), or the exception the first failing coercion raises.
EqFilters(filters_dict, i) ==
    IF i > Len(KeyOrder) THEN FilterList(<<>>)
    ELSE IF KeyOrder[i] \notin DOMAIN filters_dict.v THEN EqFilters(filters_dict, i + 1)
    ELSE LET processed_value == Coerce(filters_dict.v[KeyOrder[i]])
             rest == EqFilters(filters_dict, i + 1)
         IN  IF processed_value.t = "raised" THEN processed_value
             ELSE IF rest.t = "raised" THEN rest
             ELSE FilterList(<<MetadataFilter("metadata." \o KeyOrder[i], processed_value, "EQ")>>
                       \o rest.v)

\* The IN-predicate on the customer identifier, when there are candidates.
InFilter(candidate_ids) ==
    IF candidate_ids.t # "None"
    THEN <<MetadataFilter("metadata.customer_id", candidate_ids.v, "IN")>>
    ELSE <<>>

\* The filter list with the structured constraints assigned over the
\* candidate-id predicate instead of appended to it.
BuildFiltersOverwrite(candidate_ids, filters_dict) ==
    IF Truthy(filters_dict)
    THEN EqFilters(filters_dict, 1)
    ELSE FilterList(InFilter(candidate_ids))

\* metadata_filters (orchestration.py 130-150): the list, or the exception a
\* coercion raises.
BuildFilters(candidate_ids, filters_dict) ==
    IF Truthy(filters_dict)
    THEN LET eq == EqFilters(filters_dict, 1)
         IN  IF eq.t = "raised" THEN eq ELSE FilterList(InFilter(candidate_ids) \o eq.v)
    ELSE FilterList(InFilter(candidate_ids))

MetadataFilters(filters) == [t |-> "MetadataFilters", filters |-> filters]

\* A filter object built even for an empty list.
FiltersObjAlways(metadata_filters) == MetadataFilters(metadata_filters)

\* filters_obj (orchestration.py 152).
FiltersObj(metadata_filters) ==
    IF Len(metadata_filters) > 0 THEN MetadataFilters(metadata_filters) ELSE None

\* ------------------------------------------------------------------------
\* The token counter
\* ------------------------------------------------------------------------
ZeroCounts == [prompt |-> 0, completion |-> 0, embedding |-> 0]

\* A reset that leaves the counts as they are.
ResetCountsKeep(counts) == counts

\* token_counter.reset_counts()
ResetCounts(counts) == ZeroCounts

AddLLM(counts, p, c) ==
    [counts EXCEPT !.prompt = @ + p, !.completion = @ + c]
AddEmbedding(counts, e) == [counts EXCEPT !.embedding = @ + e]

\* What run_query_async reads after agent.run returns.
Usage(counts) ==
    [prompt_llm_token_count |-> counts.prompt,
     completion_llm_token_count |-> counts.completion,
     total_embedding_token_count |-> counts.embedding,
     total_llm_token_count |-> counts.prompt + counts.completion]

Requests == {"A", "B"}

\* ------------------------------------------------------------------------
\* State
\* ------------------------------------------------------------------------
VARIABLES
    \* the coercion on its own
    raw, once, twice, cpc,
    \* one hybrid_audience_search call: the stores, the arguments, the locals
    events, dbUp, sql_where, filters_dict, candidate_ids, filters_obj,
    searchCalls, searchK, ret, hpc,
    \* the process-wide token counter and the requests that share it
    counter, rpc, own, usage, calls, interfered

coerceVars == <<raw, once, twice, cpc>>
hybridVars == <<events, dbUp, sql_where, filters_dict, candidate_ids, filters_obj,
                searchCalls, searchK, ret, hpc>>
costVars == <<counter, rpc, own, usage, calls, interfered>>
vars == <<coerceVars, hybridVars, costVars>>

CoerceIdle ==
    /\ raw = None /\ once = None /\ twice = None /\ cpc = "unused"

HybridIdle ==
    /\ events = {} /\ dbUp = TRUE /\ sql_where = None /\ filters_dict = None
    /\ candidate_ids = None /\ filters_obj = None
    /\ searchCalls = 0 /\ searchK = 0 /\ ret = None /\ hpc = "unused"

CostIdle ==
    /\ counter = ZeroCounts
    /\ rpc = [r \in Requests |-> "unused"]
    /\ own = [r \in Requests |-> ZeroCounts]
    /\ usage = [r \in Requests |-> None]
    /\ calls = [r \in Requests |-> 0]
    /\ interfered = [r \in Requests |-> FALSE]

\* ------------------------------------------------------------------------
\* The coercion applied to a raw value, and to its own result
\* ------------------------------------------------------------------------
RECURSIVE StringsUpTo(_)
StringsUpTo(n) ==
    IF n = 0 THEN {<<>>}
    ELSE LET shorter == StringsUpTo(n - 1)
         IN  shorter \cup {Append(s, c) : s \in shorter, c \in Alphabet}

\* The raw values a structured constraint may carry: strings, and values
\* that are already numbers.
RawValues ==
    {StrVal(s) : s \in StringsUpTo(MaxLen)}
        \cup {IntVal(0), IntVal(7), IntVal(-7)}
        \cup {FloatVal(FALSE, 7, 0), FloatVal(TRUE, 7, 1), FloatVal(FALSE, 0, 0)}

InitCoerce ==
    /\ raw \in RawValues
    /\ once = None
    /\ twice = None
    /\ cpc = "raw"
    /\ HybridIdle /\ CostIdle

\* The translator coerces the raw value; a ValueError leaves the translator.
CoerceOnce ==
    /\ cpc = "raw"
    /\ once' = Coerce(raw)
    /\ cpc' = IF Coerce(raw).t = "raised" THEN "raised" ELSE "once"
    /\ UNCHANGED <<raw, twice, hybridVars, costVars>>

\* The coerced value is given to the coercion again.
CoerceTwice ==
    /\ cpc = "once"
    /\ twice' = Coerce(once)
    /\ cpc' = IF Coerce(once).t = "raised" THEN "raised2" ELSE "twice"
    /\ UNCHANGED <<raw, once, hybridVars, costVars>>

NextCoerce == CoerceOnce \/ CoerceTwice

SpecCoerce == InitCoerce /\ [][NextCoerce]_vars

\* ------------------------------------------------------------------------
\* One call of the hybrid_discovery tool
\* ------------------------------------------------------------------------
Keys == {"customer_id", "country", "age"}
\* The raw constraint values the agent may pass.
FilterRawValues ==
    {StrVal(<<"P", "L">>), StrVal(<<"7">>), StrVal(<<"-", "7">>),
     StrVal(<<"SUP2">>), IntVal(70), IntVal(1)}
FilterDicts ==
    {None} \cup {Dict(f) : f \in UNION {[K -> FilterRawValues] : K \in SUBSET Keys}}
WhereArgs == {None, EmptyStr} \cup Predicates

InitHybrid ==
    /\ events \in SUBSET EventRows
    /\ dbUp = TRUE /\ sql_where = None /\ filters_dict = None
    /\ candidate_ids = None /\ filters_obj = None
    /\ searchCalls = 0 /\ searchK = 0 /\ ret = None
    /\ hpc = "idle"
    /\ CoerceIdle /\ CostIdle

\* hybrid_audience_search from its entry to its first await (118-155), or to
\* the return or the exception that ends it before.
HybridCall(w, fd, up) ==
    /\ hpc = "idle"
    /\ sql_where' = w
    /\ filters_dict' = fd
    /\ dbUp' = up
    /\ LET g == BehavioralGate(w, events, up)
           mf == BuildFilters(g.candidate_ids, fd)
       IN  /\ candidate_ids' = g.candidate_ids
           /\ IF g.kind = "return"
              THEN /\ hpc' = "returned"
                   /\ ret' = g.ret
                   /\ UNCHANGED <<filters_obj, searchCalls, searchK>>
              ELSE IF g.kind = "raise"
              THEN /\ hpc' = "raised"
                   /\ ret' = g.ret
                   /\ UNCHANGED <<filters_obj, searchCalls, searchK>>
              ELSE IF mf.t = "raised"
              THEN /\ hpc' = "raised"
                   /\ ret' = mf
                   /\ UNCHANGED <<filters_obj, searchCalls, searchK>>
              ELSE /\ hpc' = "awaiting"
                   /\ filters_obj' = FiltersObj(mf.v)
                   /\ searchCalls' = searchCalls + 1
                   /\ searchK' = TopK
                   /\ UNCHANGED ret
    /\ UNCHANGED <<events, coerceVars, costVars>>

Min(a, b) == IF a < b THEN a ELSE b

\* query_engine.aquery returns (156-158): the index retrieves the searchK
\* best admitted points (which ones is the ranking's choice) and the
\* synthesised answer names some of them.
AqueryReturn ==
    /\ hpc = "awaiting"
    /\ \E retrieved \in SUBSET Admitted(filters_obj) :
          /\ Cardinality(retrieved) = Min(searchK, Cardinality(Admitted(filters_obj)))
          /\ \E named \in SUBSET retrieved :
                ret' = [t |-> "response", ids |-> named]
    /\ hpc' = "returned"
    /\ UNCHANGED <<events, dbUp, sql_where, filters_dict, candidate_ids, filters_obj,
                   searchCalls, searchK, coerceVars, costVars>>

\* query_engine.aquery raises: nothing in the tool catches it.
AqueryRaise ==
    /\ hpc = "awaiting"
    /\ ret' = Raised("SearchError")
    /\ hpc' = "raised"
    /\ UNCHANGED <<events, dbUp, sql_where, filters_dict, candidate_ids, filters_obj,
                   searchCalls, searchK, coerceVars, costVars>>

NextHybrid ==
    \/ \E w \in WhereArgs, fd \in FilterDicts, up \in BOOLEAN : HybridCall(w, fd, up)
    \/ AqueryReturn
    \/ AqueryRaise

SpecHybrid == InitHybrid /\ [][NextHybrid]_vars

\* ------------------------------------------------------------------------
\* Top-level requests on the process-wide token counter
\* ------------------------------------------------------------------------
InitCost ==
    /\ counter = ZeroCounts
    /\ rpc = [r \in Requests |-> "idle"]
    /\ own = [r \in Requests |-> ZeroCounts]
    /\ usage = [r \in Requests |-> None]
    /\ calls = [r \in Requests |-> 0]
    /\ interfered = [r \in Requests |-> FALSE]
    /\ CoerceIdle /\ HybridIdle

NoneRunning == \A q \in Requests : rpc[q] # "running"

\* Every other request that is running has had the counter touched under it.
Touch(r) == [q \in Requests |-> IF q = r THEN interfered[q]
                                ELSE interfered[q] \/ rpc[q] = "running"]

\* run_query_async up to its await of agent.run (219-221): the reset.  own[r]
\* records what request r itself consumes from here on.
RunQueryStart(r) ==
    /\ rpc[r] \in {"idle", "done", "failed"}
    /\ counter' = ResetCounts(counter)
    /\ rpc' = [rpc EXCEPT ![r] = "running"]
    /\ own' = [own EXCEPT ![r] = ZeroCounts]
    /\ usage' = [usage EXCEPT ![r] = None]
    /\ calls' = [calls EXCEPT ![r] = 0]
    /\ interfered' = [Touch(r) EXCEPT ![r] = FALSE]
    /\ UNCHANGED <<coerceVars, hybridVars>>

\* A request issued when no other is in flight (main.py 21, and each
\* iteration of run_benchmark).
SeqStart(r) == NoneRunning /\ RunQueryStart(r)

\* The benchmark driver's own reset before it issues a request
\* (evaluate_system.py 28).
BenchmarkReset ==
    /\ NoneRunning
    /\ counter' = ResetCounts(counter)
    /\ UNCHANGED <<rpc, own, usage, calls, interfered, coerceVars, hybridVars>>

\* A language-model call of request r's agent run reports p prompt and c
\* completion tokens to the callback manager (30-36).
LLMCall(r, p, c) ==
    /\ rpc[r] = "running"
    /\ calls[r] < MaxCalls
    /\ counter' = AddLLM(counter, p, c)
    /\ own' = [own EXCEPT ![r] = AddLLM(@, p, c)]
    /\ calls' = [calls EXCEPT ![r] = @ + 1]
    /\ interfered' = Touch(r)
    /\ UNCHANGED <<rpc, usage, coerceVars, hybridVars>>

\* An embedding call of request r's agent run reports e tokens (38-41).
EmbedCall(r, e) ==
    /\ rpc[r] = "running"
    /\ calls[r] < MaxCalls
    /\ counter' = AddEmbedding(counter, e)
    /\ own' = [own EXCEPT ![r] = AddEmbedding(@, e)]
    /\ calls' = [calls EXCEPT ![r] = @ + 1]
    /\ interfered' = Touch(r)
    /\ UNCHANGED <<rpc, usage, coerceVars, hybridVars>>

\* agent.run returns and run_query_async reads the counter (223-230).
RunQueryReport(r) ==
    /\ rpc[r] = "running"
    /\ usage' = [usage EXCEPT ![r] = Usage(counter)]
    /\ rpc' = [rpc EXCEPT ![r] = "done"]
    /\ UNCHANGED <<counter, own, calls, interfered, coerceVars, hybridVars>>

\* agent.run raises: the exception leaves run_query_async and nothing is read.
RunQueryRaise(r) ==
    /\ rpc[r] = "running"
    /\ rpc' = [rpc EXCEPT ![r] = "failed"]
    /\ UNCHANGED <<counter, own, usage, calls, interfered, coerceVars, hybridVars>>

Tokens == 1..MaxTok

AgentStep(r) ==
    \/ \E p \in Tokens, c \in Tokens : LLMCall(r, p, c)
    \/ \E e \in Tokens : EmbedCall(r, e)
    \/ RunQueryReport(r)
    \/ RunQueryRaise(r)

\* Requests issued one after another.
NextSeq ==
    \/ \E r \in Requests : SeqStart(r)
    \/ \E r \in Requests : AgentStep(r)
    \/ BenchmarkReset

SpecSeq == InitCost /\ [][NextSeq]_vars

\* A request task started while others may be in flight; each task is one
\* request.
ConcStart(r) == rpc[r] = "idle" /\ RunQueryStart(r)

\* Requests interleaved as cooperative tasks of one event loop.
NextConc ==
    \/ \E r \in Requests : ConcStart(r)
    \/ \E r \in Requests : AgentStep(r)

SpecConc == InitCost /\ [][NextConc]_vars

\* ------------------------------------------------------------------------
\* Properties
\* ------------------------------------------------------------------------
\* What the Narrowing Gate gives for the call's predicate.
GateOutput == sql_candidate_ids(sql_where, events, dbUp)
GateInvoked == hpc \in {"awaiting", "returned", "raised"} /\ Truthy(sql_where)

\* C1: a call whose behavioral predicate narrows to zero candidate
\* identifiers returns exactly the no-match literal and never invokes the
\* similarity search; whenever the search is invoked the candidate set is
\* absent or non-empty.
C1_EmptyNarrowingShortCircuits ==
    /\ (GateInvoked /\ GateOutput.t = "list" /\ GateOutput.v = {})
          => /\ hpc = "returned"
             /\ ret = Text(NoMatchMsg, "")
             /\ searchCalls = 0
    /\ searchCalls > 0
          => \/ candidate_ids.t = "None"
             \/ candidate_ids.t = "list" /\ candidate_ids.v # {}

C1_Witness ==
    /\ hpc = "returned"
    /\ sql_where.t = "str" /\ sql_where.product = "hat"
    /\ dbUp
    /\ Truthy(filters_dict)
    /\ ret = Text(NoMatchMsg, "")
    /\ searchCalls = 0

\* C2: a call whose narrowing fails returns a string beginning with
\* "SQL Error in narrowing: " without raising, and neither builds a filter
\* nor runs the similarity search.
C2_NarrowingErrorIsReturned ==
    (GateInvoked /\ GateOutput.t = "raised")
        => /\ hpc = "returned"
           /\ ret.t = "text"
           /\ ret.prefix = NarrowingErrorPrefix
           /\ filters_obj.t = "None"
           /\ searchCalls = 0

C2_Witness ==
    /\ hpc = "returned"
    /\ sql_where.t = "str" /\ sql_where.v = "malformed"
    /\ filters_dict.t = "dict"
    /\ "age" \in DOMAIN filters_dict.v
    /\ filters_dict.v["age"] = StrVal(<<"SUP2">>)
    /\ ret.t = "text" /\ ret.prefix = NarrowingErrorPrefix

\* The IN-predicates of a filter object.
InPredicates(fo) ==
    {i \in 1..Len(fo.filters) : fo.filters[i].operator = "IN"}

\* C3: when narrowing produced candidates, the search runs under exactly one
\* IN-predicate on the customer identifier whose value is the narrowing
\* output, and every customer of the result is one of those candidates,
\* whatever structured constraints are given.
C3_ResultWithinCandidates ==
    (searchCalls > 0 /\ Truthy(sql_where))
        => /\ GateOutput.t = "list"
           /\ filters_obj.t = "MetadataFilters"
           /\ Cardinality(InPredicates(filters_obj)) = 1
           /\ \A i \in InPredicates(filters_obj) :
                 /\ filters_obj.filters[i].key = "metadata.customer_id"
                 /\ filters_obj.filters[i].value = GateOutput.v
           /\ (hpc = "returned" /\ ret.t = "response") => ret.ids \subseteq GateOutput.v

C3_Witness ==
    /\ hpc = "returned"
    /\ Truthy(sql_where)
    /\ Truthy(filters_dict)
    /\ ret.t = "response"
    /\ ret.ids # {}
    /\ "customer_id" \in DOMAIN filters_dict.v
    /\ GateOutput.v # Customers

\* C6: a call with no behavioral predicate and no structured constraints
\* builds no filter object and runs the similarity search once, with K = 10.
C6_UnconstrainedSearch ==
    (hpc \in {"awaiting", "returned", "raised"} /\ ~Truthy(sql_where) /\ ~Truthy(filters_dict))
        => /\ searchCalls = 1
           /\ filters_obj.t = "None"
           /\ searchK = 10

C6_Witness ==
    /\ hpc = "returned"
    /\ sql_where = EmptyStr
    /\ filters_dict.t = "dict"
    /\ ~Truthy(filters_dict)
    /\ searchCalls = 1
    /\ ret.t = "response"
    /\ ret.ids = Customers

\* C4: for a string value the coercion never fails, gives the integer when
\* the string is an (optionally signed) integer literal, otherwise the float
\* when it is a floating-point literal, otherwise the string unchanged.
C4_StringCoercion ==
    (cpc # "raw" /\ raw.t = "str")
        => /\ once.t # "raised"
           /\ PyIntParses(raw.v) => once = PyInt(raw.v)
           /\ (~PyIntParses(raw.v) /\ PyFloatParses(raw.v)) => once = PyFloat(raw.v)
           /\ (~PyIntParses(raw.v) /\ ~PyFloatParses(raw.v)) => once = raw

\* C5: coercing the result of a coercion gives the same value, with the same
\* type, as the first coercion gave.
C5_CoercionIdempotent ==
    cpc \in {"twice", "raised2"} => twice = once

C5_Witness ==
    /\ cpc = "twice"
    /\ raw = StrVal(<<"0", "7">>)
    /\ once = IntVal(7)
    /\ twice = IntVal(7)

\* C7: with requests issued one after another, the counter holds exactly what
\* the running request has consumed so far, and what a request reads when it
\* returns is what that request alone consumed.
C7_NoLeakageAcrossRequests ==
    \A r \in Requests :
        /\ rpc[r] = "running" => counter = own[r]
        /\ rpc[r] = "done" => usage[r] = Usage(own[r])

C7_Witness ==
    /\ \A r \in Requests : rpc[r] = "done" /\ usage[r].total_llm_token_count > 0
    /\ usage["A"] # usage["B"]

Corrupted(r) == rpc[r] = "done" /\ usage[r] # Usage(own[r])

\* C10: with requests interleaved, a request can read counters that differ
\* from what it consumed, and only because another request reset the
\* counter or added its tokens while the request was in flight.
C10_CorruptionOnlyByInterference ==
    \A r \in Requests : Corrupted(r) => interfered[r]

C10_Witness ==
    \E r \in Requests : Corrupted(r)

====
